---------------------------- MODULE Spec2Model ----------------------------
(***************************************************************************)
(* Model of the Intel flash image decoder (package uefi): descriptor       *)
(* signature location, fixed little-endian record decoding, FlashParams    *)
(* bit fields, firmware volume decoding and the BIOS region discovery loop.*)
(*                                                                         *)
(* A Go byte slice is a record [bytes, len, cap]: bytes are the backing    *)
(* array from the slice's first element on (positions past Len(bytes) hold *)
(* zero), len its length and cap its capacity.  Slice expressions are      *)
(* checked against cap, element reads and readers against len, as the Go   *)
(* runtime does; a failed check is the outcome "panic".                    *)
(*                                                                         *)
(* Unsigned integers wider than 16 bits are kept as little-endian          *)
(* sequences of 16-bit limbs, so that uint32/uint64 values keep their      *)
(* width (uint64 addition wraps modulo 2^64).                              *)
(***************************************************************************)
EXTENDS Integers, Sequences, FiniteSets, TLC

VARIABLES
    input,            \* the arguments the operation under study is run on
    data,             \* the byte slice the operation holds (NewBiosRegion's cursor)
    FirmwareVolumes,  \* BiosRegion.FirmwareVolumes while it is built
    pc,               \* where the operation stands
    ret,              \* what the operation returned, Nil before it returns
    oob               \* a slice expression reached behind the end of its slice

vars == <<input, data, FirmwareVolumes, pc, ret, oob>>

Nil == [nil |-> TRUE]

----------------------------------------------------------------------------
(* Go slices *)

MkSlice(bs) == [bytes |-> bs, len |-> Len(bs), cap |-> Len(bs)]

\* a slice of length n whose backing array has `slack` more bytes behind it
MkSliceCap(bs, n) == [bytes |-> bs, len |-> n, cap |-> Len(bs)]

\* 0-based element of the backing array
At(b, i) == IF i >= 0 /\ i < Len(b.bytes) THEN b.bytes[i + 1] ELSE 0

\* b[lo:hi] is legal iff 0 <= lo <= hi <= cap(b)
SliceOK(b, lo, hi) == 0 <= lo /\ lo <= hi /\ hi <= b.cap

Slice(b, lo, hi) ==
    [bytes |-> IF lo < Len(b.bytes) THEN SubSeq(b.bytes, lo + 1, Len(b.bytes)) ELSE <<>>,
     len   |-> hi - lo,
     cap   |-> b.cap - lo]

\* b[lo:] is b[lo:len(b)]
SliceFromOK(b, lo) == SliceOK(b, lo, b.len)

SliceFrom(b, lo) == Slice(b, lo, b.len)

\* the n elements of b starting at 0-based position i
Bytes(b, i, n) == [k \in 1..n |-> At(b, i + k - 1)]

----------------------------------------------------------------------------
(* encoding/binary, little endian *)

LE16(b, i) == At(b, i) + 256 * At(b, i + 1)

LE32(b, i) == <<LE16(b, i), LE16(b, i + 2)>>

LE64(b, i) == <<LE16(b, i), LE16(b, i + 2), LE16(b, i + 4), LE16(b, i + 6)>>

\* the value of a uint64 when it is below 2^31 (every length and capacity of the
\* model is), else -1
IntOf(x) ==
    IF x[3] = 0 /\ x[4] = 0 /\ x[2] < 32768 THEN x[1] + 65536 * x[2] ELSE -1

\* uint64(n) for 0 <= n < 2^31
U64(n) == <<n % 65536, n \div 65536, 0, 0>>

\* x + y modulo 2^64
AddU64(x, y) ==
    LET s1 == x[1] + y[1]
        s2 == x[2] + y[2] + s1 \div 65536
        s3 == x[3] + y[3] + s2 \div 65536
        s4 == x[4] + y[4] + s3 \div 65536
    IN  <<s1 % 65536, s2 % 65536, s3 % 65536, s4 % 65536>>

----------------------------------------------------------------------------
(* bytes.Reader and binary.Read: a read of n bytes at position pos of the   *)
(* reader over b[0:len(b)]                                                  *)

ReadErr(b, pos, n) ==
    IF b.len - pos >= n THEN "nil"
    ELSE IF b.len - pos <= 0 THEN "EOF"
    ELSE "ErrUnexpectedEOF"

----------------------------------------------------------------------------
(* Firmware volumes *)

FirmwareVolumeFixedHeaderSize == 56

FirmwareVolumeMinSize == FirmwareVolumeFixedHeaderSize + 8

BlockSize == 8

fvSig == <<95, 70, 86, 72>>   \* "_FVH"

DecodeBlock(b, pos) == [Count |-> LE32(b, pos), Size |-> LE32(b, pos + 4)]

FirmwareVolumeFixedHeader(b) ==
    [Zeros          |-> Bytes(b, 0, 16),
     FileSystemGUID |-> Bytes(b, 16, 16),
     Length         |-> LE64(b, 32),
     Signature      |-> LE32(b, 40),
     AttrMask       |-> At(b, 44),
     HeaderLen      |-> LE16(b, 45),
     Checksum       |-> LE16(b, 47),
     Reserved       |-> Bytes(b, 49, 3),
     Revision       |-> At(b, 52),
     Unused         |-> Bytes(b, 53, 3)]

FirmwareVolume(h, blocks) ==
    [Zeros          |-> h.Zeros,
     FileSystemGUID |-> h.FileSystemGUID,
     Length         |-> h.Length,
     Signature      |-> h.Signature,
     AttrMask       |-> h.AttrMask,
     HeaderLen      |-> h.HeaderLen,
     Checksum       |-> h.Checksum,
     Reserved       |-> h.Reserved,
     Revision       |-> h.Revision,
     Unused         |-> h.Unused,
     Blocks         |-> blocks]

IsTerminator(block) == block.Count = <<0, 0>> /\ block.Size = <<0, 0>>

\* the block map loop of NewFirmwareVolume, the reader being at pos
RECURSIVE ReadBlocks(_, _, _)
ReadBlocks(b, pos, blocks) ==
    IF ReadErr(b, pos, BlockSize) # "nil"
    THEN [err |-> ReadErr(b, pos, BlockSize), blocks |-> <<>>]
    ELSE IF IsTerminator(DecodeBlock(b, pos))
    THEN [err |-> "nil", blocks |-> blocks]
    ELSE ReadBlocks(b, pos + BlockSize, Append(blocks, DecodeBlock(b, pos)))

\* a block map loop that takes the end of the input for the end of the list
RECURSIVE ReadBlocksToEnd(_, _, _)
ReadBlocksToEnd(b, pos, blocks) ==
    IF ReadErr(b, pos, BlockSize) # "nil" \/ IsTerminator(DecodeBlock(b, pos))
    THEN [err |-> "nil", blocks |-> blocks]
    ELSE ReadBlocksToEnd(b, pos + BlockSize, Append(blocks, DecodeBlock(b, pos)))

\* NewFirmwareVolume with that loop
NewFirmwareVolumeSilentStop(b) ==
    IF b.len < FirmwareVolumeMinSize
    THEN [fv |-> Nil, err |-> "ErrImageTooSmall"]
    ELSE [fv  |-> FirmwareVolume(FirmwareVolumeFixedHeader(b),
                                 ReadBlocksToEnd(b, FirmwareVolumeFixedHeaderSize, <<>>).blocks),
          err |-> "nil"]

NewFirmwareVolume(b) ==
    IF b.len < FirmwareVolumeMinSize
    THEN [fv |-> Nil, err |-> "ErrImageTooSmall"]
    ELSE IF ReadErr(b, 0, FirmwareVolumeFixedHeaderSize) # "nil"
    THEN [fv |-> Nil, err |-> ReadErr(b, 0, FirmwareVolumeFixedHeaderSize)]
    ELSE LET r == ReadBlocks(b, FirmwareVolumeFixedHeaderSize, <<>>)
         IN  IF r.err # "nil"
             THEN [fv |-> Nil, err |-> r.err]
             ELSE [fv  |-> FirmwareVolume(FirmwareVolumeFixedHeader(b), r.blocks),
                   err |-> "nil"]

FindFirmwareVolumeOffsetStart == 32

FindFirmwareVolumeOffsetStride == 8

\* the scan loop of FindFirmwareVolumeOffset from `offset` on.  panic: the slice
\* data[offset:offset+4] is out of range; overread: it is in range of the
\* capacity only and reads bytes behind the end of data
RECURSIVE ScanFrom(_, _, _)
ScanFrom(b, offset, over) ==
    IF ~(offset < b.len)
    THEN [panic |-> FALSE, offset |-> -1, overread |-> over]
    ELSE IF ~SliceOK(b, offset, offset + 4)
    THEN [panic |-> TRUE, offset |-> -1, overread |-> over]
    ELSE IF Bytes(b, offset, 4) = fvSig
    THEN [panic |-> FALSE, offset |-> offset - 40,
          overread |-> over \/ offset + 4 > b.len]
    ELSE ScanFrom(b, offset + FindFirmwareVolumeOffsetStride,
                  over \/ offset + 4 > b.len)

FindFirmwareVolumeOffset(b) ==
    IF b.len < 32
    THEN [panic |-> FALSE, offset |-> -1, overread |-> FALSE]
    ELSE ScanFrom(b, FindFirmwareVolumeOffsetStart, FALSE)

----------------------------------------------------------------------------
(* Byte images of the inputs the operations are run on *)

RECURSIVE Flatten(_)
Flatten(ss) == IF ss = <<>> THEN <<>> ELSE Head(ss) \o Flatten(Tail(ss))

Fill(n, v) == [k \in 1..n |-> v]

Put16(v) == <<v % 256, v \div 256>>

Put32(x) == Put16(x[1]) \o Put16(x[2])

Put64(x) == Put16(x[1]) \o Put16(x[2]) \o Put16(x[3]) \o Put16(x[4])

PutBlock(block) == Put32(block.Count) \o Put32(block.Size)

\* block records that are not the terminator: a zero count alone, a zero size
\* alone, or a value whose only non-zero byte is the highest one, do not end the list
BlockChoices ==
    { [Count |-> <<1, 0>>, Size |-> <<4096, 0>>],
      [Count |-> <<0, 0>>, Size |-> <<16, 0>>],
      [Count |-> <<0, 256>>, Size |-> <<0, 0>>] }

MaxBlocks == 3

BlockLists == UNION { [1..n -> BlockChoices] : n \in 0..MaxBlocks }

GUIDBytes == [k \in 1..16 |-> 16 * k - 1]

\* a volume image: header with declared length `length` and signature `sig`,
\* the block records, the terminator when `term`, then `payload`
VolumeBytes(length, sig, blocks, term, payload) ==
    Fill(16, 0) \o GUIDBytes \o Put64(length) \o sig
      \o <<255>> \o Put16(FirmwareVolumeFixedHeaderSize + BlockSize * (Len(blocks) + 1))
      \o Put16(43981) \o <<0, 0, 0>> \o <<2>> \o <<0, 0, 0>>
      \o Flatten([k \in 1..Len(blocks) |-> PutBlock(blocks[k])])
      \o (IF term THEN Fill(BlockSize, 0) ELSE <<>>)
      \o payload

\* the size of a volume image up to and including its terminator
ListEnd(blocks) == FirmwareVolumeFixedHeaderSize + BlockSize * (Len(blocks) + 1)

----------------------------------------------------------------------------
(* NewFirmwareVolume run on one buffer *)

\* bytes that follow the block list of an input: nothing, a partial record, a
\* whole record that is not the terminator
TailChoices == { <<>>, <<0, 0, 0>>, Fill(BlockSize, 170) }

\* what the header declares as Length: the image's size, zero, or the size of
\* the image up to its terminator, the terminator not included
DeclaredChoices == { "exact", "zero", "short" }

Declared(choice, blocks, tail) ==
    CASE choice = "exact" -> U64(ListEnd(blocks) + Len(tail))
      [] choice = "zero"  -> U64(0)
      [] choice = "short" -> U64(ListEnd(blocks) - BlockSize)

\* the bytes behind the end of the slice, in its backing array
SlackChoices == { <<>>, Fill(BlockSize, 0) }

FVInput(blocks, term, tail, choice, slack) ==
    LET image == VolumeBytes(Declared(choice, blocks, tail), fvSig, blocks, term, tail)
    IN  [op     |-> "NewFirmwareVolume",
         blocks |-> blocks,
         term   |-> term,
         length |-> Declared(choice, blocks, tail),
         buf    |-> MkSliceCap(image \o slack, Len(image))]

\* images cut short of the minimum size
ShortInput(n) ==
    [op     |-> "NewFirmwareVolume",
     blocks |-> <<>>,
     term   |-> FALSE,
     length |-> U64(FirmwareVolumeMinSize),
     buf    |-> MkSlice(SubSeq(VolumeBytes(U64(FirmwareVolumeMinSize), fvSig, <<>>, TRUE, <<>>), 1, n))]

ShortSizes == { 0, FirmwareVolumeFixedHeaderSize, FirmwareVolumeMinSize - 1 }

FVInputs ==
    { FVInput(blocks, term, tail, choice, slack) :
        blocks \in BlockLists, term \in BOOLEAN, tail \in TailChoices,
        choice \in DeclaredChoices, slack \in SlackChoices }
    \cup { ShortInput(n) : n \in ShortSizes }

CallNewFirmwareVolume ==
    /\ pc = "call"
    /\ input.op = "NewFirmwareVolume"
    /\ ret' = NewFirmwareVolume(data)
    /\ pc' = "done"
    /\ UNCHANGED <<input, data, FirmwareVolumes, oob>>

----------------------------------------------------------------------------
(* NewBiosRegion: one action per way through one iteration of its loop *)

\* the most volumes of a generated region
MaxVolumes == 3

\* the most iterations the loop is followed for: a loop that does not end is cut here
MaxIterations == MaxVolumes + 1

BiosScanning == pc = "scan" /\ input.op = "NewBiosRegion"

Found == FindFirmwareVolumeOffset(data)

\* uint64(offset) + fv.Length, the low bound of the slice that moves the cursor
NextCursor(offset, fv) == AddU64(U64(offset), fv.Length)

\* offset == -1: break, return &br, nil
BiosBreak ==
    /\ BiosScanning
    /\ ~Found.panic /\ Found.offset = -1
    /\ pc' = "done"
    /\ ret' = [status |-> "ok", br |-> [FirmwareVolumes |-> FirmwareVolumes]]
    /\ oob' = (oob \/ Found.overread)
    /\ UNCHANGED <<input, data, FirmwareVolumes>>

\* data[offset:offset+4] in FindFirmwareVolumeOffset is out of range
BiosScanPanic ==
    /\ BiosScanning
    /\ Found.panic
    /\ pc' = "done"
    /\ ret' = [status |-> "panic", at |-> "data[offset:offset+4]"]
    /\ oob' = TRUE
    /\ UNCHANGED <<input, data, FirmwareVolumes>>

\* data[offset:] is out of range
BiosSlicePanic ==
    /\ BiosScanning
    /\ ~Found.panic /\ Found.offset # -1
    /\ ~SliceFromOK(data, Found.offset)
    /\ pc' = "done"
    /\ ret' = [status |-> "panic", at |-> "data[offset:]"]
    /\ oob' = TRUE
    /\ UNCHANGED <<input, data, FirmwareVolumes>>

\* NewFirmwareVolume fails: return nil, err
BiosDecodeError ==
    /\ BiosScanning
    /\ ~Found.panic /\ Found.offset # -1
    /\ SliceFromOK(data, Found.offset)
    /\ LET r == NewFirmwareVolume(SliceFrom(data, Found.offset))
       IN  /\ r.err # "nil"
           /\ ret' = [status |-> "error", err |-> r.err]
    /\ pc' = "done"
    /\ oob' = (oob \/ Found.overread)
    /\ UNCHANGED <<input, data, FirmwareVolumes>>

\* data[uint64(offset)+fv.Length:] is out of range
BiosAdvancePanic ==
    /\ BiosScanning
    /\ ~Found.panic /\ Found.offset # -1
    /\ SliceFromOK(data, Found.offset)
    /\ LET r == NewFirmwareVolume(SliceFrom(data, Found.offset))
       IN  /\ r.err = "nil"
           /\ \/ IntOf(NextCursor(Found.offset, r.fv)) = -1
              \/ ~SliceFromOK(data, IntOf(NextCursor(Found.offset, r.fv)))
    /\ pc' = "done"
    /\ ret' = [status |-> "panic", at |-> "data[uint64(offset)+fv.Length:]"]
    /\ oob' = TRUE
    /\ UNCHANGED <<input, data, FirmwareVolumes>>

\* the volume is appended and the cursor moved; the loop goes round
BiosAdvance ==
    /\ BiosScanning
    /\ Len(FirmwareVolumes) < MaxIterations
    /\ ~Found.panic /\ Found.offset # -1
    /\ SliceFromOK(data, Found.offset)
    /\ LET r == NewFirmwareVolume(SliceFrom(data, Found.offset))
       IN  /\ r.err = "nil"
           /\ IntOf(NextCursor(Found.offset, r.fv)) # -1
           /\ SliceFromOK(data, IntOf(NextCursor(Found.offset, r.fv)))
           /\ data' = SliceFrom(data, IntOf(NextCursor(Found.offset, r.fv)))
           /\ FirmwareVolumes' = Append(FirmwareVolumes, r.fv)
    /\ oob' = (oob \/ Found.overread)
    /\ UNCHANGED <<input, pc, ret>>

----------------------------------------------------------------------------
(* The BIOS regions NewBiosRegion is run on *)

\* a payload holding the signature at 8-byte strides, then 5 bytes that leave
\* the next volume off the 8-byte grid of the region
DecoyPayload == fvSig \o fvSig \o fvSig \o fvSig \o Fill(5, 170)

VolumeKinds ==
    { [blocks |-> bl, payload |-> pl] :
        bl \in { <<>>,
                 <<[Count |-> <<1, 0>>, Size |-> <<4096, 0>>]>>,
                 <<[Count |-> <<0, 0>>, Size |-> <<16, 0>>],
                   [Count |-> <<0, 256>>, Size |-> <<0, 0>>]>> },
        pl \in { <<>>, DecoyPayload } }

VolumeSize(v) == ListEnd(v.blocks) + Len(v.payload)

\* a well-formed volume: signature at byte 40, terminated block list, Length
\* the distance to the next volume
WellFormedVolume(v) ==
    VolumeBytes(U64(VolumeSize(v)), fvSig, v.blocks, TRUE, v.payload)

RegionBytes(vs) == Flatten([i \in 1..Len(vs) |-> WellFormedVolume(vs[i])])

Expected(vs) ==
    [i \in 1..Len(vs) |-> [Length |-> U64(VolumeSize(vs[i])), Blocks |-> vs[i].blocks]]

VolumeLists == UNION { [1..k -> VolumeKinds] : k \in 0..MaxVolumes }

WellFormedRegion(vs) ==
    [op         |-> "NewBiosRegion",
     wellformed |-> TRUE,
     vols       |-> Expected(vs),
     buf        |-> MkSlice(RegionBytes(vs))]

\* 2^64 - n, for 0 <= n < 65536
Neg64(n) == IF n = 0 THEN U64(0) ELSE <<65536 - n, 65535, 65535, 65535>>

Plain == [blocks |-> <<>>, payload |-> <<>>]

Malformed(bs, n) ==
    [op |-> "NewBiosRegion", wellformed |-> FALSE, vols |-> <<>>,
     buf |-> MkSliceCap(bs, n)]

\* `lead` zero bytes, a volume declaring `length`, a well-formed volume
Tweaked(lead, length) ==
    LET bs == Fill(lead, 0) \o VolumeBytes(length, fvSig, <<>>, TRUE, <<>>)
                \o WellFormedVolume(Plain)
    IN  Malformed(bs, Len(bs))

LeadChoices == { 0, 8 }

\* declared lengths: right, zero, one record more than there is, 2^64 - lead
LengthChoices(lead) ==
    { U64(FirmwareVolumeMinSize), U64(0),
      U64(2 * FirmwareVolumeMinSize + BlockSize), Neg64(lead) }

\* a region that begins 8 bytes into a volume: its signature is at offset 32
Beheaded ==
    LET bs == WellFormedVolume(Plain)
    IN  Malformed(SubSeq(bs, 9, Len(bs)) \o Fill(16, 0), Len(bs) + 8)

\* a volume whose block list has no terminator
Unterminated ==
    LET bs == VolumeBytes(U64(FirmwareVolumeMinSize), fvSig,
                          <<[Count |-> <<1, 0>>, Size |-> <<4096, 0>>]>>, FALSE, <<>>)
    IN  Malformed(bs, Len(bs))

\* n bytes without any signature, the backing array having `slack` bytes more
RawSizes == 30..44

Raw(n, slack) == Malformed(Fill(n + slack, 0), n)

\* one well-formed volume as large as the number the four signature bytes
\* spell in its Length field; the bytes behind the terminator are zero
SigAsLength == <<At(MkSlice(fvSig), 0) + 256 * At(MkSlice(fvSig), 1),
                 At(MkSlice(fvSig), 2) + 256 * At(MkSlice(fvSig), 3), 0, 0>>

Huge ==
    [op         |-> "NewBiosRegion",
     wellformed |-> TRUE,
     vols       |-> <<[Length |-> SigAsLength, Blocks |-> <<>>]>>,
     buf        |-> [bytes |-> VolumeBytes(SigAsLength, fvSig, <<>>, TRUE, <<>>),
                     len   |-> IntOf(SigAsLength),
                     cap   |-> IntOf(SigAsLength)]]

BiosInputs ==
    { WellFormedRegion(vs) : vs \in VolumeLists }
    \cup UNION { { Tweaked(lead, length) : length \in LengthChoices(lead) } :
                 lead \in LeadChoices }
    \cup { Raw(n, slack) : n \in RawSizes, slack \in { 0, BlockSize } }
    \cup { Beheaded, Unterminated, Huge }

----------------------------------------------------------------------------
(* The flash descriptor: signature, descriptor map, region and master sections *)

FlashSignature == <<90, 165, 240, 15>>   \* 0x5a, 0xa5, 0xf0, 0x0f

\* The descriptor map's declaration is not among the sources: a fixed-size
\* record of one-byte fields, RegionBase the third and MasterBase the fifth.
FlashDescriptorMapSize == 16

NewFlashDescriptorMap(b) ==
    IF b.len # FlashDescriptorMapSize
    THEN [desc |-> Nil, err |-> "ErrInvalidImageSize"]
    ELSE [desc |-> [RegionBase |-> At(b, 2), MasterBase |-> At(b, 4),
                    Fields |-> Bytes(b, 0, FlashDescriptorMapSize)],
          err  |-> "nil"]

FlashRegionSectionSize == 36

\* binary.Size of the FlashRegionSection struct: ten uint16 fields
FlashRegionSectionStructSize == 20

FlashMasterSectionSize == 12

\* binary.Read into FlashRegionSection
FlashRegionSection(b) ==
    [Reserved            |-> LE16(b, 0),
     FlashBlockEraseSize |-> LE16(b, 2),
     BiosBase            |-> LE16(b, 4),
     BiosLimit           |-> LE16(b, 6),
     MeBase              |-> LE16(b, 8),
     MeLimit             |-> LE16(b, 10),
     GbeBase             |-> LE16(b, 12),
     GbeLimit            |-> LE16(b, 14),
     PdrBase             |-> LE16(b, 16),
     PdrLimit            |-> LE16(b, 18)]

NewFlashRegionSection(b) ==
    IF b.len < FlashRegionSectionSize
    THEN [region |-> Nil, err |-> "ErrImageTooSmall"]
    ELSE IF ReadErr(b, 0, FlashRegionSectionStructSize) # "nil"
    THEN [region |-> Nil, err |-> ReadErr(b, 0, FlashRegionSectionStructSize)]
    ELSE [region |-> FlashRegionSection(b), err |-> "nil"]

\* AvailableRegions testing the base fields in place of the limits
AvailableRegionsByBase(f) ==
    (IF f.BiosBase > 0 THEN <<"BIOS">> ELSE <<>>)
      \o (IF f.MeBase > 0 THEN <<"ME">> ELSE <<>>)
      \o (IF f.GbeBase > 0 THEN <<"GbE">> ELSE <<>>)
      \o (IF f.PdrBase > 0 THEN <<"PDR">> ELSE <<>>)

AvailableRegions(f) ==
    (IF f.BiosLimit > 0 THEN <<"BIOS">> ELSE <<>>)
      \o (IF f.MeLimit > 0 THEN <<"ME">> ELSE <<>>)
      \o (IF f.GbeLimit > 0 THEN <<"GbE">> ELSE <<>>)
      \o (IF f.PdrLimit > 0 THEN <<"PDR">> ELSE <<>>)

\* binary.Read into FlashMasterSection: 12 bytes
FlashMasterSection(b) ==
    [BiosID    |-> LE16(b, 0),
     BiosRead  |-> At(b, 2),
     BiosWrite |-> At(b, 3),
     MeID      |-> LE16(b, 4),
     MeRead    |-> At(b, 6),
     MeWrite   |-> At(b, 7),
     GbeID     |-> LE16(b, 8),
     GbeRead   |-> At(b, 10),
     GbeWrite  |-> At(b, 11)]

NewFlashMasterSection(b) ==
    IF b.len < FlashMasterSectionSize
    THEN [master |-> Nil, err |-> "Flash Master Section size too small"]
    ELSE IF ReadErr(b, 0, FlashMasterSectionSize) # "nil"
    THEN [master |-> Nil, err |-> ReadErr(b, 0, FlashMasterSectionSize)]
    ELSE [master |-> FlashMasterSection(b), err |-> "nil"]

\* FindSignature trying offset 0 before offset 16
FindSignatureLegacyFirst(b) ==
    IF ~SliceOK(b, 16, 16 + Len(FlashSignature))
    THEN [panic |-> TRUE, start |-> -1, overread |-> TRUE]
    ELSE IF Bytes(b, 0, Len(FlashSignature)) = FlashSignature
    THEN [panic |-> FALSE, start |-> 4, overread |-> b.len < 20]
    ELSE IF Bytes(b, 16, Len(FlashSignature)) = FlashSignature
    THEN [panic |-> FALSE, start |-> 20, overread |-> b.len < 20]
    ELSE [panic |-> FALSE, start |-> -1, overread |-> b.len < 20]

\* FlashImage.FindSignature on f.buf.  f.buf[16:20] is a slice expression: it
\* panics when 20 > cap and reads behind the end when len < 20 <= cap
FindSignature(b) ==
    IF ~SliceOK(b, 16, 16 + Len(FlashSignature))
    THEN [panic |-> TRUE, start |-> -1, overread |-> TRUE]
    ELSE IF Bytes(b, 16, Len(FlashSignature)) = FlashSignature
    THEN [panic |-> FALSE, start |-> 20, overread |-> b.len < 20]
    ELSE IF ~SliceOK(b, 0, Len(FlashSignature))
    THEN [panic |-> TRUE, start |-> -1, overread |-> TRUE]
    ELSE IF Bytes(b, 0, Len(FlashSignature)) = FlashSignature
    THEN [panic |-> FALSE, start |-> 4, overread |-> b.len < 20]
    ELSE [panic |-> FALSE, start |-> -1, overread |-> b.len < 20]

Panic(at) == [status |-> "panic", at |-> at, err |-> "nil", flash |-> Nil]

Failure(err) == [status |-> "error", at |-> "", err |-> err, flash |-> Nil]

\* NewFlashImage from the master section on
FlashImageMaster(b, start, desc, regionStart, region) ==
    LET masterStart == desc.MasterBase * 16
    IN  IF ~SliceOK(b, masterStart, masterStart + FlashMasterSectionSize)
        THEN Panic("buf[MasterStart:MasterStart+12]")
        ELSE LET m == NewFlashMasterSection(
                          Slice(b, masterStart, masterStart + FlashMasterSectionSize))
             IN  IF m.err # "nil" THEN Failure(m.err)
                 ELSE [status |-> "ok", at |-> "", err |-> "nil",
                       flash  |-> [DescriptorMapStart |-> start,
                                   RegionStart        |-> regionStart,
                                   MasterStart        |-> masterStart,
                                   DescriptorMap      |-> desc,
                                   Region             |-> region,
                                   Master             |-> m.master]]

\* NewFlashImage from the region section on
FlashImageRegion(b, start, desc) ==
    LET regionStart == desc.RegionBase * 16
    IN  IF ~SliceOK(b, regionStart, regionStart + FlashRegionSectionSize)
        THEN Panic("buf[RegionStart:RegionStart+36]")
        ELSE LET r == NewFlashRegionSection(
                          Slice(b, regionStart, regionStart + FlashRegionSectionSize))
             IN  IF r.err # "nil" THEN Failure(r.err)
                 ELSE FlashImageMaster(b, start, desc, regionStart, r.region)

NewFlashImage(b) ==
    IF b.len < FlashDescriptorMapSize THEN Failure("ErrImageTooSmall")
    ELSE IF FindSignature(b).panic THEN Panic("f.buf[16:20]")
    ELSE IF FindSignature(b).start < 0 THEN Failure("ErrFlashSignatureNotFound")
    ELSE LET start == FindSignature(b).start
         IN  IF ~SliceOK(b, start, start + FlashDescriptorMapSize)
             THEN Panic("buf[DescriptorMapStart:DescriptorMapStart+FlashDescriptorMapSize]")
             ELSE LET d == NewFlashDescriptorMap(
                               Slice(b, start, start + FlashDescriptorMapSize))
                  IN  IF d.err # "nil" THEN Failure(d.err)
                      ELSE FlashImageRegion(b, start, d.desc)

\* whether NewFlashImage's slice expressions reach behind the end of buf
FlashOverread(b) ==
    /\ b.len >= FlashDescriptorMapSize
    /\ \/ FindSignature(b).overread
       \/ /\ NewFlashImage(b).status = "ok"
          /\ LET f == NewFlashImage(b).flash
             IN  \/ f.DescriptorMapStart + FlashDescriptorMapSize > b.len
                 \/ f.RegionStart + FlashRegionSectionSize > b.len
                 \/ f.MasterStart + FlashMasterSectionSize > b.len

----------------------------------------------------------------------------
(* FlashParams: a 4-byte slice read through shift-and-mask accessors *)

FlashParamsSize == 4

\* x >> n on a byte
Shr(x, n) == x \div (2 ^ n)

\* x & y on bytes
RECURSIVE And(_, _)
And(x, y) ==
    IF x = 0 \/ y = 0 THEN 0
    ELSE (x % 2) * (y % 2) + 2 * And(x \div 2, y \div 2)

NewFlashParams(b) ==
    IF b.len # FlashParamsSize
    THEN [p |-> Nil, err |-> "ErrInvalidImageSize"]
    ELSE [p |-> Bytes(b, 0, b.len), err |-> "nil"]

\* p[i] of the Go slice p
Elem(p, i) == p[i + 1]

FirstChipDensity(p) == And(Elem(p, 0), 15)

SecondChipDensity(p) == And(Shr(Elem(p, 0), 4), 15)

\* ReadClockFrequency without the shift
ReadClockFrequencyUnshifted(p) == And(Elem(p, 2), 7)

ReadClockFrequency(p) == And(Shr(Elem(p, 2), 1), 7)

FastReadEnabled(p) == And(Shr(Elem(p, 2), 4), 1)

FastReadFrequency(p) == And(Shr(Elem(p, 2), 5), 7)

FlashWriteFrequency(p) == And(Elem(p, 3), 7)

FlashReadStatusFrequency(p) == And(Shr(Elem(p, 3), 3), 7)

DualOutputFastReadSupported(p) == Shr(Elem(p, 3), 7)

Accessors(p) ==
    [FirstChipDensity            |-> FirstChipDensity(p),
     SecondChipDensity           |-> SecondChipDensity(p),
     ReadClockFrequency          |-> ReadClockFrequency(p),
     FastReadEnabled             |-> FastReadEnabled(p),
     FastReadFrequency           |-> FastReadFrequency(p),
     FlashWriteFrequency         |-> FlashWriteFrequency(p),
     FlashReadStatusFrequency    |-> FlashReadStatusFrequency(p),
     DualOutputFastReadSupported |-> DualOutputFastReadSupported(p)]

----------------------------------------------------------------------------
(* The flash images NewFlashImage and FindSignature are run on *)

\* what stands where a signature may be: the signature, the signature with
\* one byte changed, or the surrounding bytes
Marks == { "sig", "near", "none" }

Background(i) == (7 * i + 3) % 256

Near16 == [FlashSignature EXCEPT ![4] = 14]

Near0 == [FlashSignature EXCEPT ![1] = 91]

\* where the descriptor map of an image with these marks begins
MapStart(at16, at0) == IF at16 # "sig" /\ at0 = "sig" THEN 4 ELSE 20

\* n bytes: the marks at offsets 16 and 0, RegionBase rb and MasterBase mb in
\* the descriptor map
FlashBytes(n, at16, at0, rb, mb) ==
    [k \in 1..n |->
        LET i == k - 1
        IN  IF i \in 16..19 /\ at16 # "none"
            THEN (IF at16 = "sig" THEN FlashSignature ELSE Near16)[i - 15]
            ELSE IF i \in 0..3 /\ at0 # "none"
            THEN (IF at0 = "sig" THEN FlashSignature ELSE Near0)[i + 1]
            ELSE IF i = MapStart(at16, at0) + 2 THEN rb
            ELSE IF i = MapStart(at16, at0) + 4 THEN mb
            ELSE Background(i)]

FlashSizes == { 10, 16, 19, 20, 24, 35, 36, 60, 84, 100, 124, 132 }

RegionBases == { 3, 4, 6 }

MasterBases == { 3, 5, 7 }

FlashSlack == { 0, 8 }

FlashInput(op, n, slack, at16, at0, rb, mb) ==
    [op |-> op, at16 |-> at16, at0 |-> at0, rb |-> rb, mb |-> mb,
     buf |-> MkSliceCap(FlashBytes(n + slack, at16, at0, rb, mb), n)]

FlashInputs ==
    { FlashInput("NewFlashImage", n, slack, at16, at0, rb, mb) :
        n \in FlashSizes, slack \in FlashSlack, at16 \in Marks, at0 \in Marks,
        rb \in RegionBases, mb \in MasterBases }
    \cup { FlashInput("FindSignature", n, slack, at16, at0, 3, 3) :
        n \in FlashSizes, slack \in FlashSlack, at16 \in Marks, at0 \in Marks }

CallNewFlashImage ==
    /\ pc = "call"
    /\ input.op = "NewFlashImage"
    /\ ret' = NewFlashImage(data)
    /\ oob' = (NewFlashImage(data).status = "panic" \/ FlashOverread(data))
    /\ pc' = "done"
    /\ UNCHANGED <<input, data, FirmwareVolumes>>

CallFindSignature ==
    /\ pc = "call"
    /\ input.op = "FindSignature"
    /\ ret' = FindSignature(data)
    /\ oob' = FindSignature(data).overread
    /\ pc' = "done"
    /\ UNCHANGED <<input, data, FirmwareVolumes>>

----------------------------------------------------------------------------
(* The windows the record decoders are run on *)

\* limit values: zero, a small value, a value whose low byte is zero
LimitChoices == { 0, 3, 5, 256 }

BaseChoices == { 0, 3 }

RegionTails == { Fill(FlashRegionSectionSize - FlashRegionSectionStructSize, v) :
                 v \in { 0, 170 } }

RegionWindow(bases, limits, tail) ==
    Put16(0) \o Put16(4096)
      \o Flatten([k \in 1..4 |-> Put16(bases[k]) \o Put16(limits[k])])
      \o tail

RegionInputs ==
    { [op |-> "AvailableRegions", bases |-> bases, limits |-> limits,
       buf |-> MkSlice(RegionWindow(bases, limits, tail))] :
        bases \in [1..4 -> BaseChoices], limits \in [1..4 -> LimitChoices],
        tail \in RegionTails }

\* NewFlashRegionSection, then AvailableRegions on the record
CallAvailableRegions ==
    /\ pc = "call"
    /\ input.op = "AvailableRegions"
    /\ LET r == NewFlashRegionSection(data)
       IN  ret' = [err |-> r.err, region |-> r.region,
                   regions |-> IF r.err = "nil" THEN AvailableRegions(r.region) ELSE <<>>]
    /\ pc' = "done"
    /\ UNCHANGED <<input, data, FirmwareVolumes, oob>>

RecordSize(kind) ==
    CASE kind = "Region" -> FlashRegionSectionSize
      [] kind = "Master" -> FlashMasterSectionSize
      [] kind = "Params" -> FlashParamsSize

Decode(kind, b) ==
    CASE kind = "Region" -> NewFlashRegionSection(b).region
      [] kind = "Master" -> NewFlashMasterSection(b).master
      [] kind = "Params" -> NewFlashParams(b).p

\* pairs of windows of one record size: the second is the first, or the first
\* with the byte at 0-based position j changed
Patterns == { 0, 1 }

Window(kind, pat) == [k \in 1..RecordSize(kind) |-> Background(k + 100 * pat)]

Changes == { 1, 128 }

PairInputs ==
    { [op |-> "Decode", kind |-> kind, w1 |-> Window(kind, pat), w2 |-> Window(kind, pat),
       buf |-> MkSlice(Window(kind, pat))] :
        kind \in { "Region", "Master", "Params" }, pat \in Patterns }
    \cup UNION { { [op |-> "Decode", kind |-> kind, w1 |-> Window(kind, pat),
                    w2 |-> [Window(kind, pat) EXCEPT ![j] = (@ + c) % 256],
                    buf |-> MkSlice(Window(kind, pat))] :
                   j \in 1..RecordSize(kind), pat \in Patterns, c \in Changes } :
                 kind \in { "Region", "Master", "Params" } }

\* the decoder of input.kind on both windows
CallDecode ==
    /\ pc = "call"
    /\ input.op = "Decode"
    /\ ret' = [first  |-> Decode(input.kind, MkSlice(input.w1)),
               second |-> Decode(input.kind, MkSlice(input.w2))]
    /\ pc' = "done"
    /\ UNCHANGED <<input, data, FirmwareVolumes, oob>>

----------------------------------------------------------------------------
(* The FlashParams records the accessors are run on *)

\* every value of one byte, the other three all zeros or all ones
OtherBytes == { 0, 255 }

ParamsRecords ==
    { [[k \in 1..FlashParamsSize |-> others[k]] EXCEPT ![j] = v] :
        others \in [1..FlashParamsSize -> OtherBytes],
        j \in 1..FlashParamsSize, v \in 0..255 }

ParamsInputs ==
    { [op |-> "FlashParams", bytes |-> p, buf |-> MkSlice(p)] : p \in ParamsRecords }
    \cup { [op |-> "FlashParams", bytes |-> Fill(n, 255), buf |-> MkSlice(Fill(n, 255))] :
           n \in { FlashParamsSize - 1, FlashParamsSize + 1 } }

\* NewFlashParams, then every accessor
CallFlashParams ==
    /\ pc = "call"
    /\ input.op = "FlashParams"
    /\ LET r == NewFlashParams(data)
       IN  ret' = [err    |-> r.err,
                   fields |-> IF r.err = "nil" THEN Accessors(r.p) ELSE Nil]
    /\ pc' = "done"
    /\ UNCHANGED <<input, data, FirmwareVolumes, oob>>

----------------------------------------------------------------------------
(* The specification: one operation run on one input *)

Init ==
    /\ input \in BiosInputs \cup FVInputs \cup FlashInputs \cup RegionInputs
                   \cup PairInputs \cup ParamsInputs
    /\ data = input.buf
    /\ FirmwareVolumes = <<>>
    /\ pc = IF input.op = "NewBiosRegion" THEN "scan" ELSE "call"
    /\ ret = Nil
    /\ oob = FALSE

Next ==
    \/ BiosBreak
    \/ BiosScanPanic
    \/ BiosSlicePanic
    \/ BiosDecodeError
    \/ BiosAdvancePanic
    \/ BiosAdvance
    \/ CallNewFirmwareVolume
    \/ CallNewFlashImage
    \/ CallFindSignature
    \/ CallAvailableRegions
    \/ CallDecode
    \/ CallFlashParams

Spec == Init /\ [][Next]_vars

----------------------------------------------------------------------------
(* Properties *)

Done(op) == pc = "done" /\ input.op = op

\* C1: every iteration of NewBiosRegion's loop that finds and decodes a volume
\* leaves strictly fewer remaining bytes than it found (the cursor strictly
\* advances), whatever Length the volume declares.
C1_CursorStrictlyAdvances ==
    [][(input.op = "NewBiosRegion" /\ Len(FirmwareVolumes') > Len(FirmwareVolumes))
          => data'.len < data.len]_vars

\* the volume NewBiosRegion is expected to return for the i-th volume of a
\* well-formed region
IsDecodeOf(fv, v) ==
    /\ fv.Length = v.Length
    /\ fv.Blocks = v.Blocks
    /\ Put32(fv.Signature) = fvSig
    /\ fv.FileSystemGUID = GUIDBytes
    /\ fv.HeaderLen = ListEnd(v.Blocks)

FoundAll ==
    /\ ret.status = "ok"
    /\ Len(ret.br.FirmwareVolumes) = Len(input.vols)
    /\ \A i \in 1..Len(input.vols) :
          IsDecodeOf(ret.br.FirmwareVolumes[i], input.vols[i])

\* C2: on a region made of k >= 0 consecutive well-formed volumes NewBiosRegion
\* returns no error and exactly k volumes, in file order, the i-th being the
\* decode of the i-th volume.
C2_EveryVolumeFound ==
    (Done("NewBiosRegion") /\ input.wellformed) => FoundAll

\* C2 for the regions shorter than the number the signature bytes spell:
\* there the Length field of a well-formed volume cannot hold the signature.
VolumesFoundInShortRegions ==
    (Done("NewBiosRegion") /\ input.wellformed /\ input.buf.len < IntOf(SigAsLength))
        => FoundAll

TwoVolumesFound ==
    /\ Done("NewBiosRegion") /\ input.wellformed
    /\ Len(input.vols) = 2 /\ ret.status = "ok" /\ Len(ret.br.FirmwareVolumes) = 2

\* C3: NewFlashImage never indexes outside the buffer: it returns an image
\* whose three section windows lie inside the buffer, or a hard error.
C3_WindowsInsideBuffer ==
    Done("NewFlashImage") =>
        /\ ret.status \in { "ok", "error" }
        /\ ret.status = "ok" =>
              /\ ret.flash.DescriptorMapStart + FlashDescriptorMapSize <= data.len
              /\ ret.flash.RegionStart + FlashRegionSectionSize <= data.len
              /\ ret.flash.MasterStart + FlashMasterSectionSize <= data.len
              /\ ret.flash.RegionStart = ret.flash.DescriptorMap.RegionBase * 16
              /\ ret.flash.MasterStart = ret.flash.DescriptorMap.MasterBase * 16

\* C4: NewFirmwareVolume on header + N non-terminator records + terminator
\* returns exactly those N records in order, the terminator left out; on a
\* buffer of at least 64 bytes with no terminator record before its end it
\* returns an error and no volume.
C4_BlockListDecode ==
    (Done("NewFirmwareVolume") /\ data.len >= FirmwareVolumeMinSize) =>
        /\ input.term => (ret.err = "nil" /\ ret.fv # Nil /\ ret.fv.Blocks = input.blocks)
        /\ ~input.term => (ret.err \in { "EOF", "ErrUnexpectedEOF" } /\ ret.fv = Nil)

C4_ThreeBlocksDecoded ==
    /\ Done("NewFirmwareVolume")
    /\ input.term /\ Len(input.blocks) = 3
    /\ ret.err = "nil" /\ Len(ret.fv.Blocks) = 3

\* what a buffer with the marks at16 and at0 holds, by C5
ExpectedStart(at16, at0) ==
    IF at16 = "sig" THEN 20 ELSE IF at0 = "sig" THEN 4 ELSE -1

C6_DecodeInjective ==
    Done("Decode") => (ret.first = ret.second => input.w1 = input.w2)

\* C6 for the Master Section and Flash Params windows alone.
MasterAndParamsInjective ==
    (Done("Decode") /\ input.kind # "Region")
        => (ret.first = ret.second => input.w1 = input.w2)

RegionNames == <<"BIOS", "ME", "GbE", "PDR">>

LimitOf(f, k) ==
    CASE k = 1 -> f.BiosLimit [] k = 2 -> f.MeLimit
      [] k = 3 -> f.GbeLimit  [] k = 4 -> f.PdrLimit

\* the position of a name in the declaration order, 0 for another string
Rank(name) ==
    IF \E k \in 1..4 : RegionNames[k] = name
    THEN CHOOSE k \in 1..4 : RegionNames[k] = name
    ELSE 0

\* C7: AvailableRegions returns exactly the names of [BIOS, ME, GbE, PDR]
\* whose limit field is non-zero, none twice, in declaration order.
C7_AvailableRegions ==
    (Done("AvailableRegions") /\ ret.err = "nil") =>
        /\ \A k \in 1..4 :
              (\E i \in 1..Len(ret.regions) : ret.regions[i] = RegionNames[k])
                 <=> LimitOf(ret.region, k) # 0
        /\ \A i \in 1..Len(ret.regions) : Rank(ret.regions[i]) # 0
        /\ \A i, j \in 1..Len(ret.regions) :
              i < j => Rank(ret.regions[i]) < Rank(ret.regions[j])

C7_BiosAndGbe ==
    /\ Done("AvailableRegions")
    /\ ret.region.BiosLimit = 5 /\ ret.region.MeLimit = 0
    /\ ret.region.GbeLimit = 3 /\ ret.region.PdrLimit = 0
    /\ ret.region.MeBase = 3
    /\ ret.regions = <<"BIOS", "GbE">>

\* bit i of a byte, and the number held by its bits lo .. lo+width-1
Bit(x, i) == (x \div (2 ^ i)) % 2

RECURSIVE Field(_, _, _)
Field(x, lo, width) ==
    IF width = 0 THEN 0 ELSE Bit(x, lo) + 2 * Field(x, lo + 1, width - 1)

\* C8: on every 4-byte FlashParams record no accessor fails and each returns
\* exactly the bits the layout table gives it, unmapped frequency values
\* (3, 5, 7) included.
C8_AccessorsReadTheirBits ==
    (Done("FlashParams") /\ Len(input.bytes) = FlashParamsSize) =>
        /\ ret.err = "nil"
        /\ ret.fields.FirstChipDensity = Field(input.bytes[1], 0, 4)
        /\ ret.fields.SecondChipDensity = Field(input.bytes[1], 4, 4)
        /\ ret.fields.ReadClockFrequency = Field(input.bytes[3], 1, 3)
        /\ ret.fields.FastReadEnabled = Field(input.bytes[3], 4, 1)
        /\ ret.fields.FastReadFrequency = Field(input.bytes[3], 5, 3)
        /\ ret.fields.FlashWriteFrequency = Field(input.bytes[4], 0, 3)
        /\ ret.fields.FlashReadStatusFrequency = Field(input.bytes[4], 3, 3)
        /\ ret.fields.DualOutputFastReadSupported = Field(input.bytes[4], 7, 1)

C8_UnmappedFrequencyRead ==
    /\ Done("FlashParams")
    /\ input.bytes = <<255, 255, 6, 255>>
    /\ ret.err = "nil"
    /\ ret.fields.ReadClockFrequency = 3

\* C9: NewBiosRegion returns a BiosRegion or an error on every buffer and no
\* slice expression of it reaches outside the buffer.
C9_NoOutOfBounds ==
    input.op = "NewBiosRegion" =>
        /\ ~oob
        /\ pc = "done" => ret.status \in { "ok", "error" }

\* C10: every volume NewFirmwareVolume returns has its block list, the
\* terminator included, inside its declared Length.
C10_BlockListWithinLength ==
    (Done("NewFirmwareVolume") /\ ret.err = "nil") =>
        \/ IntOf(ret.fv.Length) = -1
        \/ ListEnd(ret.fv.Blocks) <= IntOf(ret.fv.Length)

============================================================================
